---- MODULE Spec2Model ----
(***************************************************************************)
(* Model of the mDNS protocol engine MdnsService                           *)
(* (src/protocols/mdns/src/behaviour/mdns_service.rs): the service and     *)
(* node registry, the listener with its query and response paths, the      *)
(* advertiser, the querier, the reporter and run, which spawns them; a     *)
(* caller's own call of the public process_query; and a second engine on   *)
(* the segment that ingests what this one sends.                           *)
(*                                                                         *)
(* A string the program computes is a sequence of one-character strings,   *)
(* so that splitting a name into labels, joining labels, formatting an     *)
(* address and comparing strings are computed. A string handed to the      *)
(* program by a caller (an id, a service type, an origin) is a TLA+ string *)
(* and Chars gives its characters.                                         *)
(* An Option is <<>> (None) or <<v>> (Some(v)).                            *)
(***************************************************************************)
EXTENDS Integers, Sequences, FiniteSets, TLC

\* ------------------------------------------------------------------ bounds

\* register_local_service calls in one behaviour
MaxRegs == 2
\* datagrams the listener receives in one behaviour
MaxRecv == 1

\* --------------------------------------------------------- program constants

\* 0x8400: QR=1, AA=1
FLAGS_RESPONSE == 33792
\* 0x0000
FLAGS_QUERY == 0
\* 0x8000: the QR bit tested by listen
QR_MASK == 32768
QTYPE_PTR == 12
QCLASS_IN == 1
DEFAULT_TTL == 120
MDNS_PORT == 5353
MULTICAST_ADDR == <<224, 0, 0, 251>>
\* longest label DnsName::new accepts
MaxLabelLen == 63

\* ------------------------------------------------------------------ options

None == <<>>
Some(v) == <<v>>
unwrap_or(o, d) == IF o = None THEN d ELSE o[1]

\* ------------------------------------------------------------------ strings

\* the service types the scenarios register and query
ST_HTTP == "h.lo"
ST_PRN == "p.lo"
\* service instance ids
ID_SVC1 == "s1.lo"
ID_SVC2 == "s2.lo"
\* an id whose first label has MaxLabelLen + 1 bytes
ID_LONG ==
  "xxxxxxxxxxxxxxxxxxxxxxxxxxxxxxxxxxxxxxxxxxxxxxxxxxxxxxxxxxxxxxxx.lo"
\* host names
HOST1 == "n1.lo"
HOST2 == "n2.lo"

\* the characters of a string
Chars(str) ==
  CASE str = ST_HTTP -> <<"h", ".", "l", "o">>
    [] str = ST_PRN -> <<"p", ".", "l", "o">>
    [] str = ID_SVC1 -> <<"s", "1", ".", "l", "o">>
    [] str = ID_SVC2 -> <<"s", "2", ".", "l", "o">>
    [] str = ID_LONG -> [i \in 1..(MaxLabelLen + 1) |-> "x"] \o <<".", "l", "o">>
    [] str = HOST1 -> <<"n", "1", ".", "l", "o">>
    [] str = HOST2 -> <<"n", "2", ".", "l", "o">>

RECURSIVE DotIndex(_, _)
\* index of the first "." of s at or after i, 0 when there is none
DotIndex(s, i) ==
  IF i > Len(s) THEN 0
  ELSE IF s[i] = "." THEN i
  ELSE DotIndex(s, i + 1)

RECURSIVE Split(_)
\* str::split('.'): the labels between the dots
Split(s) ==
  LET i == DotIndex(s, 1)
  IN  IF i = 0 THEN <<s>>
      ELSE <<SubSeq(s, 1, i - 1)>> \o Split(SubSeq(s, i + 1, Len(s)))

RECURSIVE Join(_)
\* the labels joined by "."
Join(labels) ==
  IF Len(labels) = 0 THEN <<>>
  ELSE IF Len(labels) = 1 THEN labels[1]
  ELSE labels[1] \o <<".">> \o Join(Tail(labels))

\* the strings callers hand to the program
Strings == {ST_HTTP, ST_PRN, ID_SVC1, ID_SVC2, ID_LONG, HOST1, HOST2}

\* the labels of each of them
Labels == [str \in Strings |-> Split(Chars(str))]

\* DnsName::new: Ok(name) unless a label is longer than MaxLabelLen
DnsName_new(s) ==
  LET labels == Labels[s]
  IN  IF \A i \in 1..Len(labels) : Len(labels[i]) <= MaxLabelLen
      THEN [ok |-> TRUE, labels |-> labels]
      ELSE [ok |-> FALSE, labels |-> <<>>]

\* DnsName's Display
DnsName_to_string(name) == Join(name)

DigitChar(d) ==
  CASE d = 0 -> "0" [] d = 1 -> "1" [] d = 2 -> "2" [] d = 3 -> "3"
    [] d = 4 -> "4" [] d = 5 -> "5" [] d = 6 -> "6" [] d = 7 -> "7"
    [] d = 8 -> "8" [] d = 9 -> "9"

RECURSIVE Decimal(_)
\* an octet in decimal, no leading zeros
Decimal(n) ==
  IF n < 10 THEN <<DigitChar(n)>>
  ELSE Decimal(n \div 10) \o <<DigitChar(n % 10)>>

\* Ipv4Addr::new(ip[0], ip[1], ip[2], ip[3]).to_string()
Ipv4_to_string(ip) ==
  Decimal(ip[1]) \o <<".">> \o Decimal(ip[2]) \o <<".">> \o
  Decimal(ip[3]) \o <<".">> \o Decimal(ip[4])

\* ------------------------------------------------------------------- inputs

\* the argument lists (id, service_type, port, ttl, origin) of the
\* register_local_service calls a behaviour draws from
RegCalls ==
  { <<ID_SVC1, ST_HTTP, 8080, None, HOST1>>,
    <<ID_SVC1, ST_PRN, 9090, Some(60), HOST2>>,
    <<ID_SVC2, ST_HTTP, 8081, Some(60), HOST1>>,
    <<ID_LONG, ST_HTTP, 8082, None, HOST1>> }

\* the question names of inbound queries, as decoded label sequences:
\* h.lo, H.lo (another letter case), h.l (a proper prefix), p.lo
QN_HTTP == << <<"h">>, <<"l", "o">> >>
QN_UPPER == << <<"H">>, <<"l", "o">> >>
QN_PREFIX == << <<"h">>, <<"l">> >>
QN_PRN == << <<"p">>, <<"l", "o">> >>

Question(n, t, c) == [qname |-> n, qtype |-> t, qclass |-> c]

RecA(n, t, ip) == [type |-> "A", name |-> n, ttl |-> t, ip |-> ip]
RecPTR(n, t, p) == [type |-> "PTR", name |-> n, ttl |-> t, ptr_name |-> p]
RecSRV(n, t, pr, w, po, tg) ==
  [type |-> "SRV", name |-> n, ttl |-> t, priority |-> pr, weight |-> w,
   port |-> po, target |-> tg]

\* DnsPacket::new() with the given fields
Packet(f, qs, as) == [ok |-> TRUE, flags |-> f, questions |-> qs, answers |-> as]

\* a datagram DnsPacket::parse rejects
Undecodable == [ok |-> FALSE, flags |-> 0, questions |-> <<>>, answers |-> <<>>]

N_HOST2 == << <<"n", "2">>, <<"l", "o">> >>
N_HOST3 == << <<"n", "3">>, <<"l", "o">> >>

QueryPackets ==
  { Packet(0, <<Question(QN_HTTP, 12, 1)>>, <<>>),
    Packet(0, <<Question(QN_UPPER, 12, 1)>>, <<>>),
    Packet(0, <<Question(QN_PREFIX, 12, 1)>>, <<>>),
    \* an A question and a PTR question of class ANY: no reply
    Packet(0, <<Question(QN_HTTP, 1, 1), Question(QN_HTTP, 12, 255)>>, <<>>),
    \* two PTR/IN questions, recursion-desired flag set (0x0100)
    Packet(256, <<Question(QN_HTTP, 12, 1), Question(QN_PRN, 12, 1)>>, <<>>),
    \* a query that carries an answer section
    Packet(0, <<Question(QN_PRN, 12, 1)>>, <<RecA(N_HOST3, 30, <<10, 0, 0, 3>>)>>) }

ResponsePackets ==
  { Packet(33792, <<>>, <<RecA(N_HOST2, 120, <<10, 0, 0, 9>>)>>),
    \* two A records of one name; flags 0x8000
    Packet(32768, <<>>, <<RecA(N_HOST2, 120, <<10, 0, 0, 9>>),
                          RecA(N_HOST2, 60, <<192, 168, 1, 255>>)>>),
    \* PTR and SRV only
    Packet(33792, <<>>, <<RecPTR(QN_HTTP, 120, N_HOST2),
                          RecSRV(N_HOST2, 120, 0, 0, 80, N_HOST3)>>),
    \* a response that carries a question, and an A record between others
    Packet(33792, <<Question(QN_HTTP, 12, 1)>>,
           <<RecPTR(QN_HTTP, 120, N_HOST2),
             RecA(N_HOST3, 10, <<10, 0, 0, 3>>),
             RecSRV(N_HOST2, 120, 0, 0, 80, N_HOST3)>>) }

Datagrams == {Undecodable} \cup QueryPackets \cup ResponsePackets

V4(ip, port) == [fam |-> "V4", ip |-> ip, port |-> port]

\* the socket is an AF_INET socket: recv_from yields IPv4 sources only
RecvSources == { V4(<<10, 0, 0, 5>>, 5353), V4(<<192, 168, 1, 20>>, 40000) }

\* SocketAddr::V6
V6(ip, port) == [fam |-> "V6", ip |-> ip, port |-> port]

\* the src arguments of direct process_query calls: 10.0.0.5 and fe80::1
CallSources ==
  { V4(<<10, 0, 0, 5>>, 5353), V6(<<65152, 0, 0, 0, 0, 0, 0, 1>>, 5353) }

\* what get_local_ipv4 can return
LocalIps == { None, Some(<<192, 168, 1, 10>>) }

\* the service_type arguments of run: "h.lo", and a name DnsName::new rejects
RunTypes == { ST_HTTP, ID_LONG }

NoPacket == Packet(0, <<>>, <<>>)
NoSource == V4(<<0, 0, 0, 0>>, 0)

\* -------------------------------------------------------------------- state

VARIABLES
  services,   \* registry: service id -> ServiceRecord
  nodes,      \* registry: node id -> NodeRecord
  regLog,     \* history: the register_local_service calls, oldest first
  run_pc,     \* run: "call", then the last task spawned, then "returned"
  run_type,   \* run's service_type argument
  run_interval, \* run's query_interval argument
  listener,   \* the listener task; snaps and sentFor are history: the
              \* snapshot taken for each question of the message in hand,
              \* and the questions a send was attempted for
  advertiser, \* the advertiser task
  querier,    \* the querier task
  reporter,   \* the reporter task
  wire,       \* the last send_to call on the socket
  local_ip,   \* environment: what get_local_ipv4 returns now
  direct,     \* a caller's own call of the public process_query
  peer        \* a second engine on the segment: its node registry; from and
              \* adv are history: the sender of the packet it ingested last,
              \* and whether it has ingested an advertisement

vars == <<services, nodes, regLog, run_pc, run_type, run_interval, listener,
          advertiser, querier, reporter, wire, local_ip, direct, peer>>

Tasks == <<listener, advertiser, querier, reporter>>

Init ==
  /\ services = <<>>
  /\ nodes = <<>>
  /\ regLog = <<>>
  /\ run_pc = "call"
  /\ run_type = <<>>
  /\ run_interval = 0
  /\ listener = [status |-> "unspawned", pc |-> "recv", pkt |-> NoPacket,
                 src |-> NoSource, qi |-> 0, ai |-> 0,
                 resp |-> NoPacket, snaps |-> <<>>, sentFor |-> <<>>,
                 n |-> 0]
  /\ advertiser = [status |-> "unspawned", pc |-> "sleep", pkt |-> NoPacket,
                   snap |-> <<>>, lookup |-> FALSE, env_ip |-> None,
                   res |-> "none"]
  /\ querier = [status |-> "unspawned", pc |-> "tick", pkt |-> NoPacket,
                tick |-> "none"]
  /\ reporter = [status |-> "unspawned", seen |-> <<>>]
  /\ wire = [by |-> "none", pkt |-> NoPacket, dst |-> NoSource, ok |-> FALSE]
  /\ local_ip = None
  /\ direct = [status |-> "idle", pc |-> "query", pkt |-> NoPacket,
               src |-> NoSource, qi |-> 0, resp |-> NoPacket,
               snaps |-> <<>>, sent |-> <<>>, n |-> 0]
  /\ peer = [nodes |-> <<>>, pc |-> "recv", pkt |-> NoPacket,
             src |-> NoSource, ai |-> 0, from |-> "none", adv |-> FALSE,
             n |-> 0]

\* ----------------------------------------------------------------- registry

\* MdnsRegistry::add_service: insert or overwrite by id
add_service(reg, rec) ==
  [k \in DOMAIN reg \cup {rec.id} |-> IF k = rec.id THEN rec ELSE reg[k]]

\* MdnsRegistry::add_node: insert or overwrite by id
add_node(reg, rec) ==
  [k \in DOMAIN reg \cup {rec.id} |-> IF k = rec.id THEN rec ELSE reg[k]]

Range(f) == { f[k] : k \in DOMAIN f }

\* the orders in which a snapshot can list the entries of a registry map
Snapshots(reg) ==
  LET S == Range(reg)
      n == Cardinality(S)
  IN  { f \in [1..n -> S] : \A i, j \in 1..n : i # j => f[i] # f[j] }

\* MdnsRegistry::list_services: a point-in-time copy, in some order
list_services(reg) == Snapshots(reg)

\* MdnsRegistry::list_nodes
list_nodes(reg) == Snapshots(reg)

\* mutant: priority and weight left unset
ServiceRecord_unset(id, service_type, port, ttl, origin) ==
  [id |-> id, service_type |-> service_type, port |-> port, ttl |-> ttl,
   origin |-> origin, priority |-> None, weight |-> None]

\* the ServiceRecord register_local_service builds from its arguments
ServiceRecord(id, service_type, port, ttl, origin) ==
  [id |-> id, service_type |-> service_type, port |-> port, ttl |-> ttl,
   origin |-> origin, priority |-> Some(0), weight |-> Some(0)]

\* mutant: registering an id that is in the registry removes its entry
register_local_service_remove(c) ==
  /\ Len(regLog) < MaxRegs
  /\ services' =
       IF c[1] \in DOMAIN services
       THEN [k \in DOMAIN services \ {c[1]} |-> services[k]]
       ELSE add_service(services, ServiceRecord(c[1], c[2], c[3], c[4], c[5]))
  /\ regLog' = Append(regLog, c)
  /\ UNCHANGED <<nodes, run_pc, run_type, run_interval, listener, advertiser, querier,
                 reporter, wire, local_ip,
                 direct, peer>>

\* register_local_service(id, service_type, port, ttl, origin)
register_local_service(c) ==
  /\ Len(regLog) < MaxRegs
  /\ services' = add_service(services, ServiceRecord(c[1], c[2], c[3], c[4], c[5]))
  /\ regLog' = Append(regLog, c)
  /\ UNCHANGED <<nodes, run_pc, run_type, run_interval, listener, advertiser, querier,
                 reporter, wire, local_ip,
                 direct, peer>>

\* ------------------------------------------------------------------- socket

\* mutant: a response to a query goes back to the querier's address
send_packet_to_source(by, packet, ok) ==
  wire' = [by |-> by, pkt |-> packet,
           dst |-> IF by = "listener" THEN listener.src
                   ELSE V4(MULTICAST_ADDR, MDNS_PORT),
           ok |-> ok]

\* send_packet: one send_to on the socket, addressed to the multicast group;
\* ok is whether send_to succeeded
send_packet(by, packet, ok) ==
  wire' = [by |-> by, pkt |-> packet, dst |-> V4(MULTICAST_ADDR, MDNS_PORT),
           ok |-> ok]

\* ---------------------------------------------------------------------- run

\* tokio::spawn: the task starts running
spawned(task) == [task EXCEPT !.status = "running"]

\* run(service_type, query_interval, ..) is called: spawn the advertiser loop
run_spawn_advertiser(service_type, query_interval) ==
  /\ run_pc = "call"
  /\ run_pc' = "advertiser"
  /\ run_type' = service_type
  /\ run_interval' = query_interval
  /\ advertiser' = spawned(advertiser)
  /\ UNCHANGED <<services, nodes, regLog, listener, querier, reporter, wire,
                 local_ip,
                 direct, peer>>

\* run: spawn periodic_query
run_spawn_querier ==
  /\ run_pc = "advertiser"
  /\ run_pc' = "querier"
  /\ querier' = spawned(querier)
  /\ UNCHANGED <<services, nodes, regLog, run_type, run_interval, listener, advertiser,
                 reporter, wire, local_ip,
                 direct, peer>>

\* run: spawn listen
run_spawn_listener ==
  /\ run_pc = "querier"
  /\ run_pc' = "listener"
  /\ listener' = spawned(listener)
  /\ UNCHANGED <<services, nodes, regLog, run_type, run_interval, advertiser, querier,
                 reporter, wire, local_ip,
                 direct, peer>>

\* mutant: run returns without spawning the reporter
run_spawn_reporter_skipped ==
  /\ run_pc = "listener"
  /\ run_pc' = "reporter"
  /\ UNCHANGED <<services, nodes, regLog, run_type, run_interval, listener, advertiser,
                 querier, reporter, wire, local_ip,
                 direct, peer>>

\* run: spawn print_node_registry
run_spawn_reporter ==
  /\ run_pc = "listener"
  /\ run_pc' = "reporter"
  /\ reporter' = spawned(reporter)
  /\ UNCHANGED <<services, nodes, regLog, run_type, run_interval, listener, advertiser,
                 querier, wire, local_ip,
                 direct, peer>>

\* run: print "(TASK) All tasks are running." and return
run_return ==
  /\ run_pc = "reporter"
  /\ run_pc' = "returned"
  /\ UNCHANGED <<services, nodes, regLog, run_type, run_interval, listener, advertiser,
                 querier, reporter, wire, local_ip,
                 direct, peer>>

\* ----------------------------------------------------------------- listener

\* mutant: any flag bit makes a response
is_response_any_flag(flags) == flags # 0

\* (packet.flags & 0x8000) != 0
is_response(flags) == (flags \div QR_MASK) % 2 = 1

\* mutant: the record's ttl is dropped
add_node_to_registry_no_ttl(reg, id, ip_address, ttl) ==
  add_node(reg, [id |-> id, ip_address |-> ip_address, ttl |-> None])

\* add_node_to_registry(id, ip_address, ttl)
add_node_to_registry(reg, id, ip_address, ttl) ==
  add_node(reg, [id |-> id, ip_address |-> ip_address, ttl |-> ttl])

RECURSIVE next_a_record(_, _)
\* the loop of process_response: the index of the first A record after the
\* i-th answer, 0 when there is none; the other answers take the `_ => {}` arm
next_a_record(answers, i) ==
  IF i >= Len(answers) THEN 0
  ELSE IF answers[i + 1].type = "A" THEN i + 1
  ELSE next_a_record(answers, i + 1)

\* process_response: on to the add_node of the next A record, or, after the
\* last, back to the caller's recv_from
next_answer(l) ==
  LET j == next_a_record(l.pkt.answers, l.ai)
  IN  IF j = 0 THEN [l EXCEPT !.pc = "recv"]
      ELSE [l EXCEPT !.pc = "response", !.ai = j]

\* process_response(packet, src) is entered: nothing is done unless src is V4
process_response(l) == IF l.src.fam = "V4" THEN next_answer(l) ELSE l

\* process_response, the A arm: the registry after the awaited
\* add_node_to_registry(name, ip, Some(ttl)) of A record a
process_response_answer(reg, a) ==
  add_node_to_registry(reg, DnsName_to_string(a.name), Ipv4_to_string(a.ip),
                       Some(a.ttl))

Lower(c) == IF c = "H" THEN "h" ELSE IF c = "P" THEN "p" ELSE c
to_lowercase(str) == [i \in 1..Len(str) |-> Lower(str[i])]

\* mutant: the comparison ignores letter case
service_matches_ignore_case(s, requested) ==
  to_lowercase(Chars(s.service_type)) = to_lowercase(requested)

\* the filter of process_query: s.service_type == requested_service
service_matches(s, requested) == Chars(s.service_type) = requested

RECURSIVE matching_services(_, _)
\* services.into_iter().filter(..).collect()
matching_services(snap, requested) ==
  IF snap = <<>> THEN <<>>
  ELSE (IF service_matches(Head(snap), requested) THEN <<Head(snap)>> ELSE <<>>)
       \o matching_services(Tail(snap), requested)

\* mutant: the SRV record is pushed before the PTR record
query_records_srv_first(s, src) ==
  LET st == DnsName_new(s.service_type)
      id == DnsName_new(s.id)
      og == DnsName_new(s.origin)
      ttl == unwrap_or(s.ttl, DEFAULT_TTL)
  IN  IF ~(st.ok /\ id.ok /\ og.ok) THEN [ok |-> FALSE, answers |-> <<>>]
      ELSE [ok |-> TRUE,
            answers |->
              << RecSRV(id.labels, ttl, unwrap_or(s.priority, 0),
                        unwrap_or(s.weight, 0), s.port, og.labels),
                 RecPTR(st.labels, ttl, id.labels) >>
              \o (IF src.fam = "V4"
                  THEN <<RecA(og.labels, ttl, src.ip)>>
                  ELSE <<>>)]

\* mutant: a source that is not IPv4 gets an A record of 0.0.0.0
query_records_a_unspecified(s, src) ==
  LET st == DnsName_new(s.service_type)
      id == DnsName_new(s.id)
      og == DnsName_new(s.origin)
      ttl == unwrap_or(s.ttl, DEFAULT_TTL)
  IN  IF ~(st.ok /\ id.ok /\ og.ok) THEN [ok |-> FALSE, answers |-> <<>>]
      ELSE [ok |-> TRUE,
            answers |->
              << RecPTR(st.labels, ttl, id.labels),
                 RecSRV(id.labels, ttl, unwrap_or(s.priority, 0),
                        unwrap_or(s.weight, 0), s.port, og.labels),
                 RecA(og.labels, ttl,
                      IF src.fam = "V4" THEN src.ip ELSE <<0, 0, 0, 0>>) >>]

\* mutant: the A record carries this host's address, as an advertisement does
query_records_local_ip(s, src) ==
  LET st == DnsName_new(s.service_type)
      id == DnsName_new(s.id)
      og == DnsName_new(s.origin)
      ttl == unwrap_or(s.ttl, DEFAULT_TTL)
  IN  IF ~(st.ok /\ id.ok /\ og.ok) THEN [ok |-> FALSE, answers |-> <<>>]
      ELSE [ok |-> TRUE,
            answers |->
              << RecPTR(st.labels, ttl, id.labels),
                 RecSRV(id.labels, ttl, unwrap_or(s.priority, 0),
                        unwrap_or(s.weight, 0), s.port, og.labels) >>
              \o (IF src.fam = "V4"
                  THEN <<RecA(og.labels, ttl, <<192, 168, 1, 10>>)>>
                  ELSE <<>>)]

\* the records process_query pushes for one service; ok is FALSE when a
\* DnsName::new(..).unwrap() panics
query_records(s, src) ==
  LET st == DnsName_new(s.service_type)
      id == DnsName_new(s.id)
      og == DnsName_new(s.origin)
      ttl == unwrap_or(s.ttl, DEFAULT_TTL)
  IN  IF ~(st.ok /\ id.ok /\ og.ok) THEN [ok |-> FALSE, answers |-> <<>>]
      ELSE [ok |-> TRUE,
            answers |->
              << RecPTR(st.labels, ttl, id.labels),
                 RecSRV(id.labels, ttl, unwrap_or(s.priority, 0),
                        unwrap_or(s.weight, 0), s.port, og.labels) >>
              \o (IF src.fam = "V4"
                  THEN <<RecA(og.labels, ttl, src.ip)>>
                  ELSE <<>>)]

RECURSIVE query_answers(_, _)
\* the loop of process_query over the matching services
query_answers(matching, src) ==
  IF matching = <<>> THEN [ok |-> TRUE, answers |-> <<>>]
  ELSE LET r == query_records(Head(matching), src)
           rest == query_answers(Tail(matching), src)
       IN  IF r.ok /\ rest.ok
           THEN [ok |-> TRUE, answers |-> r.answers \o rest.answers]
           ELSE [ok |-> FALSE, answers |-> <<>>]

\* mutant: process_query returns after the first question
next_question_return(l) == [l EXCEPT !.pc = "recv"]

\* process_query: on to the next question, or back to recv_from after the last
next_question(l) ==
  IF l.qi < Len(l.pkt.questions)
  THEN [l EXCEPT !.pc = "query", !.qi = @ + 1]
  ELSE [l EXCEPT !.pc = "recv"]

\* listen: recv_from returns an error; listen returns it and the task ends
listen_recv_error ==
  /\ listener.status = "running"
  /\ listener.pc = "recv"
  /\ listener' = [listener EXCEPT !.status = "recv_failed"]
  /\ UNCHANGED <<services, nodes, regLog, run_pc, run_type, run_interval, advertiser,
                 querier, reporter, wire, local_ip,
                 direct, peer>>

\* listen: recv_from returns datagram d from src; parse it and dispatch on QR
listen_recv(d, src) ==
  /\ listener.status = "running"
  /\ listener.pc = "recv"
  /\ listener.n < MaxRecv
  /\ LET l == [listener EXCEPT !.pkt = d, !.src = src, !.n = @ + 1, !.qi = 0,
                               !.ai = 0, !.resp = NoPacket, !.snaps = <<>>,
                               !.sentFor = <<>>]
     IN  IF ~d.ok THEN listener' = l
         ELSE IF is_response(d.flags) THEN listener' = process_response(l)
         ELSE listener' = next_question(l)
  /\ UNCHANGED <<services, nodes, regLog, run_pc, run_type, run_interval, advertiser,
                 querier, reporter, wire, local_ip,
                 direct, peer>>

\* mutant: the target of an SRV answer of the packet becomes a node as well
process_response_add_srv ==
  /\ listener.status = "running"
  /\ listener.pc = "response"
  /\ nodes' =
       LET as == listener.pkt.answers
           reg == process_response_answer(nodes, as[listener.ai])
           srv == { k \in 1..Len(as) : as[k].type = "SRV" }
       IN  IF srv = {} THEN reg
           ELSE LET a == as[CHOOSE k \in srv : TRUE]
                IN  add_node_to_registry(reg, DnsName_to_string(a.target),
                                         <<>>, Some(a.ttl))
  /\ listener' = next_answer(listener)
  /\ UNCHANGED <<services, regLog, run_pc, run_type, run_interval, advertiser, querier,
                 reporter, wire, local_ip,
                 direct, peer>>

\* process_response: the awaited add_node_to_registry of one A record; other
\* tasks run between two of them
process_response_add ==
  /\ listener.status = "running"
  /\ listener.pc = "response"
  /\ nodes' = process_response_answer(nodes, listener.pkt.answers[listener.ai])
  /\ listener' = next_answer(listener)
  /\ UNCHANGED <<services, regLog, run_pc, run_type, run_interval, advertiser, querier,
                 reporter, wire, local_ip,
                 direct, peer>>

\* process_query: one question up to its response packet (or its skip);
\* a failing unwrap panics and ends the listener task
process_query_question ==
  /\ listener.status = "running"
  /\ listener.pc = "query"
  /\ LET q == listener.pkt.questions[listener.qi]
     IN  IF q.qtype = QTYPE_PTR /\ q.qclass = QCLASS_IN
         THEN \E snap \in list_services(services) :
                LET requested == DnsName_to_string(q.qname)
                    matching == matching_services(snap, requested)
                    built == query_answers(matching, listener.src)
                    l == [listener EXCEPT !.snaps = Append(@, snap)]
                IN  IF matching = <<>>
                    THEN listener' = next_question(l)
                    ELSE IF ~built.ok
                    THEN listener' = [l EXCEPT !.status = "panicked"]
                    ELSE listener' =
                           [l EXCEPT !.pc = "send",
                                     !.resp = Packet(FLAGS_RESPONSE, <<>>,
                                                     built.answers)]
         ELSE listener' =
                next_question([listener EXCEPT !.snaps = Append(@, <<>>)])
  /\ UNCHANGED <<services, nodes, regLog, run_pc, run_type, run_interval, advertiser,
                 querier, reporter, wire, local_ip,
                 direct, peer>>

\* mutant: a failed send is propagated and ends the listener
process_query_send_propagated(ok) ==
  /\ listener.status = "running"
  /\ listener.pc = "send"
  /\ send_packet("listener", listener.resp, ok)
  /\ listener' =
       IF ok
       THEN next_question([listener EXCEPT !.sentFor = Append(@, listener.qi)])
       ELSE [listener EXCEPT !.sentFor = Append(@, listener.qi),
                             !.status = "send_failed"]
  /\ UNCHANGED <<services, nodes, regLog, run_pc, run_type, run_interval, advertiser,
                 querier, reporter, local_ip,
                 direct, peer>>

\* mutant: the response is built again from the registry as it is at the send
process_query_send_reread(ok) ==
  /\ listener.status = "running"
  /\ listener.pc = "send"
  /\ LET snap == CHOOSE x \in list_services(services) : TRUE
         q == listener.pkt.questions[listener.qi]
         matching == matching_services(snap, DnsName_to_string(q.qname))
         built == query_answers(matching, listener.src)
     IN  send_packet("listener", Packet(FLAGS_RESPONSE, <<>>, built.answers), ok)
  /\ listener' = next_question([listener EXCEPT !.sentFor = Append(@, listener.qi)])
  /\ UNCHANGED <<services, nodes, regLog, run_pc, run_type, run_interval, advertiser,
                 querier, reporter, local_ip,
                 direct, peer>>

\* process_query: send the response of the current question
process_query_send(ok) ==
  /\ listener.status = "running"
  /\ listener.pc = "send"
  /\ send_packet("listener", listener.resp, ok)
  /\ listener' = next_question([listener EXCEPT !.sentFor = Append(@, listener.qi)])
  /\ UNCHANGED <<services, nodes, regLog, run_pc, run_type, run_interval, advertiser,
                 querier, reporter, local_ip,
                 direct, peer>>

\* --------------------------------------------- process_query called directly

\* process_query called directly: on to the next question, or the call
\* returns after the last
next_call_question(c) ==
  IF c.qi < Len(c.pkt.questions)
  THEN [c EXCEPT !.pc = "query", !.qi = @ + 1]
  ELSE [c EXCEPT !.status = "returned"]

\* a caller of the public process_query(packet, src) enters it
process_query_call(d, src) ==
  /\ direct.status # "running"
  /\ direct.n < MaxRecv
  /\ d.ok
  /\ direct' = next_call_question(
                 [direct EXCEPT !.status = "running", !.pkt = d, !.src = src,
                                !.qi = 0, !.resp = NoPacket, !.snaps = <<>>,
                                !.sent = <<>>, !.n = @ + 1])
  /\ UNCHANGED <<services, nodes, regLog, run_pc, run_type, run_interval, listener,
                 advertiser, querier, reporter, wire, local_ip, peer>>

\* the call's loop: one question up to its response packet (or its skip),
\* on the snapshot list_services returns now; a failing unwrap panics
process_query_call_question ==
  /\ direct.status = "running"
  /\ direct.pc = "query"
  /\ LET q == direct.pkt.questions[direct.qi]
     IN  IF q.qtype = QTYPE_PTR /\ q.qclass = QCLASS_IN
         THEN \E snap \in list_services(services) :
                LET requested == DnsName_to_string(q.qname)
                    matching == matching_services(snap, requested)
                    built == query_answers(matching, direct.src)
                    c == [direct EXCEPT !.snaps = Append(@, snap)]
                IN  IF matching = <<>>
                    THEN direct' = next_call_question(c)
                    ELSE IF ~built.ok
                    THEN direct' = [c EXCEPT !.status = "panicked"]
                    ELSE direct' =
                           [c EXCEPT !.pc = "send",
                                     !.resp = Packet(FLAGS_RESPONSE, <<>>,
                                                     built.answers)]
         ELSE direct' =
                next_call_question([direct EXCEPT !.snaps = Append(@, <<>>)])
  /\ UNCHANGED <<services, nodes, regLog, run_pc, run_type, run_interval, listener,
                 advertiser, querier, reporter, wire, local_ip, peer>>

\* the call's loop: the awaited send_packet of the current question's
\* response; an error is printed and the loop goes on
process_query_call_send(ok) ==
  /\ direct.status = "running"
  /\ direct.pc = "send"
  /\ send_packet("caller", direct.resp, ok)
  /\ direct' = next_call_question(
                 [direct EXCEPT !.sent = Append(@, [qi |-> direct.qi,
                                                    pkt |-> direct.resp,
                                                    ok |-> ok])])
  /\ UNCHANGED <<services, nodes, regLog, run_pc, run_type, run_interval, listener,
                 advertiser, querier, reporter, local_ip, peer>>

\* --------------------------------------------------------------- advertiser

\* mutant: every record carries the default ttl
advertise_records_default_ttl(s, ip) ==
  LET st == DnsName_new(s.service_type)
      id == DnsName_new(s.id)
      og == DnsName_new(s.origin)
      ttl == DEFAULT_TTL
  IN  IF ~(st.ok /\ id.ok /\ og.ok) THEN [ok |-> FALSE, answers |-> <<>>]
      ELSE [ok |-> TRUE,
            answers |->
              << RecPTR(st.labels, ttl, id.labels),
                 RecSRV(id.labels, ttl, unwrap_or(s.priority, 0),
                        unwrap_or(s.weight, 0), s.port, og.labels),
                 RecA(og.labels, ttl, ip) >>]

\* the records create_advertise_packet pushes for one service; ok is FALSE
\* when a DnsName::new(..).unwrap() panics
advertise_records(s, ip) ==
  LET st == DnsName_new(s.service_type)
      id == DnsName_new(s.id)
      og == DnsName_new(s.origin)
      ttl == unwrap_or(s.ttl, DEFAULT_TTL)
  IN  IF ~(st.ok /\ id.ok /\ og.ok) THEN [ok |-> FALSE, answers |-> <<>>]
      ELSE [ok |-> TRUE,
            answers |->
              << RecPTR(st.labels, ttl, id.labels),
                 RecSRV(id.labels, ttl, unwrap_or(s.priority, 0),
                        unwrap_or(s.weight, 0), s.port, og.labels),
                 RecA(og.labels, ttl, ip) >>]

RECURSIVE advertise_answers(_, _)
\* the loop of create_advertise_packet over the snapshot
advertise_answers(snap, ip) ==
  IF snap = <<>> THEN [ok |-> TRUE, answers |-> <<>>]
  ELSE LET r == advertise_records(Head(snap), ip)
           rest == advertise_answers(Tail(snap), ip)
       IN  IF r.ok /\ rest.ok
           THEN [ok |-> TRUE, answers |-> r.answers \o rest.answers]
           ELSE [ok |-> FALSE, answers |-> <<>>]

\* mutant: the local address is resolved before the snapshot is tested
create_advertise_packet_lookup_first(snap, ip) ==
  IF ip = None
  THEN [res |-> "err", packet |-> NoPacket, lookup |-> TRUE]
  ELSE IF snap = <<>>
  THEN [res |-> "ok", packet |-> Packet(FLAGS_RESPONSE, <<>>, <<>>),
        lookup |-> TRUE]
  ELSE LET built == advertise_answers(snap, ip[1])
       IN  IF built.ok
           THEN [res |-> "ok",
                 packet |-> Packet(FLAGS_RESPONSE, <<>>, built.answers),
                 lookup |-> TRUE]
           ELSE [res |-> "panic", packet |-> NoPacket, lookup |-> TRUE]

\* create_advertise_packet on snapshot snap, when get_local_ipv4 would return
\* ip: res is "ok" (Ok(packet)), "err" (Err) or "panic"; lookup is whether
\* get_local_ipv4 was called
create_advertise_packet(snap, ip) ==
  IF snap = <<>>
  THEN [res |-> "ok", packet |-> Packet(FLAGS_RESPONSE, <<>>, <<>>),
        lookup |-> FALSE]
  ELSE IF ip = None
  THEN [res |-> "err", packet |-> NoPacket, lookup |-> TRUE]
  ELSE LET built == advertise_answers(snap, ip[1])
       IN  IF built.ok
           THEN [res |-> "ok",
                 packet |-> Packet(FLAGS_RESPONSE, <<>>, built.answers),
                 lookup |-> TRUE]
           ELSE [res |-> "panic", packet |-> NoPacket, lookup |-> TRUE]

\* the advertiser loop of run: time::sleep(advertise_interval) completes
advertise_sleep ==
  /\ advertiser.status = "running"
  /\ advertiser.pc = "sleep"
  /\ advertiser' = [advertiser EXCEPT !.pc = "advertise"]
  /\ UNCHANGED <<services, nodes, regLog, run_pc, run_type, run_interval,
                 listener, querier,
                 reporter, wire, local_ip,
                 direct, peer>>

\* the advertiser loop of run: advertise_services calls
\* create_advertise_packet; an Err is printed and the loop goes on
advertise_services_build ==
  /\ advertiser.status = "running"
  /\ advertiser.pc = "advertise"
  /\ \E snap \in list_services(services) :
       LET r == create_advertise_packet(snap, local_ip)
           a == [advertiser EXCEPT !.snap = snap, !.lookup = r.lookup,
                                   !.env_ip = local_ip, !.res = r.res,
                                   !.pkt = r.packet]
       IN  advertiser' =
             CASE r.res = "ok" -> [a EXCEPT !.pc = "send"]
               [] r.res = "err" -> [a EXCEPT !.pc = "sleep"]
               [] r.res = "panic" -> [a EXCEPT !.status = "panicked"]
  /\ UNCHANGED <<services, nodes, regLog, run_pc, run_type, run_interval,
                 listener, querier,
                 reporter, wire, local_ip,
                 direct, peer>>

\* advertise_services: send_packet(&packet); its error is printed by the loop
advertise_services_send(ok) ==
  /\ advertiser.status = "running"
  /\ advertiser.pc = "send"
  /\ send_packet("advertiser", advertiser.pkt, ok)
  /\ advertiser' = [advertiser EXCEPT !.pc = "sleep"]
  /\ UNCHANGED <<services, nodes, regLog, run_pc, run_type, run_interval,
                 listener, querier,
                 reporter, local_ip,
                 direct, peer>>

\* ------------------------------------------------------------------ querier

\* ticker.tick(): the first tick of a tokio interval completes at once, each
\* later one when the next period of the interval ends
interval_tick(last) == IF last = "none" THEN "first" ELSE "later"

\* time::interval(Duration::from_secs(interval_secs)) panics when the period
\* is zero
interval_ok(interval_secs) == interval_secs > 0

\* mutant: the question asks for A records
periodic_query_tick_qtype_a ==
  /\ querier.status = "running"
  /\ querier.pc = "tick"
  /\ LET qname == DnsName_new(run_type)
     IN  querier' =
           IF querier.tick = "none" /\ ~interval_ok(run_interval)
           THEN [querier EXCEPT !.status = "panicked"]
           ELSE IF qname.ok
           THEN [querier EXCEPT
                   !.pc = "send",
                   !.tick = interval_tick(@),
                   !.pkt = Packet(FLAGS_QUERY,
                                  <<Question(qname.labels, 1, QCLASS_IN)>>,
                                  <<>>)]
           ELSE [querier EXCEPT !.status = "panicked", !.tick = interval_tick(@)]
  /\ UNCHANGED <<services, nodes, regLog, run_pc, run_type, run_interval, listener,
                 advertiser, reporter, wire, local_ip,
                 direct, peer>>

\* periodic_query: on entry the interval is created, and the task panics if
\* its period is zero; then the tick completes and the query packet is built;
\* a service_type DnsName::new rejects makes the unwrap panic
periodic_query_tick ==
  /\ querier.status = "running"
  /\ querier.pc = "tick"
  /\ LET qname == DnsName_new(run_type)
     IN  querier' =
           IF querier.tick = "none" /\ ~interval_ok(run_interval)
           THEN [querier EXCEPT !.status = "panicked"]
           ELSE IF qname.ok
           THEN [querier EXCEPT
                   !.pc = "send",
                   !.tick = interval_tick(@),
                   !.pkt = Packet(FLAGS_QUERY,
                                  <<Question(qname.labels, QTYPE_PTR, QCLASS_IN)>>,
                                  <<>>)]
           ELSE [querier EXCEPT !.status = "panicked", !.tick = interval_tick(@)]
  /\ UNCHANGED <<services, nodes, regLog, run_pc, run_type, run_interval, listener,
                 advertiser, reporter, wire, local_ip,
                 direct, peer>>

\* periodic_query: send_packet(&packet); an error is printed, the loop goes on
periodic_query_send(ok) ==
  /\ querier.status = "running"
  /\ querier.pc = "send"
  /\ send_packet("querier", querier.pkt, ok)
  /\ querier' = [querier EXCEPT !.pc = "tick"]
  /\ UNCHANGED <<services, nodes, regLog, run_pc, run_type, run_interval, listener,
                 advertiser, reporter, local_ip,
                 direct, peer>>

\* ----------------------------------------------------------------- reporter

\* print_node_registry: the sleep ends and the nodes are listed and printed
print_node_registry ==
  /\ reporter.status = "running"
  /\ \E snap \in list_nodes(nodes) :
       reporter' = [reporter EXCEPT !.seen = snap]
  /\ UNCHANGED <<services, nodes, regLog, run_pc, run_type, run_interval, listener,
                 advertiser, querier, wire, local_ip,
                 direct, peer>>

\* ------------------------------------------------------------- second engine

\* the address the second engine receives this engine's packets from
EngineAddr == V4(<<192, 168, 1, 10>>, 5353)

\* the listener of a second engine on the segment receives the packet this
\* engine sent to the group last: listen dispatches it, process_response
\* takes its A records, and a query leaves the peer's nodes as they are
peer_recv ==
  /\ peer.pc = "recv"
  /\ peer.n < MaxRecv
  /\ wire.by # "none"
  /\ wire.ok
  /\ LET p == [peer EXCEPT !.pkt = wire.pkt, !.src = EngineAddr, !.ai = 0,
                           !.from = wire.by,
                           !.adv = @ \/ wire.by = "advertiser",
                           !.n = @ + 1]
     IN  peer' = IF is_response(wire.pkt.flags) THEN process_response(p)
                 ELSE p
  /\ UNCHANGED <<services, nodes, regLog, run_pc, run_type, run_interval, listener,
                 advertiser, querier, reporter, wire, local_ip, direct>>

\* the second engine's process_response: the awaited add_node_to_registry of
\* one A record, on its own registry
peer_process_response_add ==
  /\ peer.pc = "response"
  /\ peer' = [next_answer(peer) EXCEPT
               !.nodes = process_response_answer(peer.nodes,
                                                 peer.pkt.answers[peer.ai])]
  /\ UNCHANGED <<services, nodes, regLog, run_pc, run_type, run_interval, listener,
                 advertiser, querier, reporter, wire, local_ip, direct>>

\* -------------------------------------------------------------- environment

\* the host's outbound address appears, changes or disappears
net_change ==
  /\ local_ip' \in LocalIps \ {local_ip}
  /\ UNCHANGED <<services, nodes, regLog, run_pc, run_type, run_interval, listener,
                 advertiser, querier, reporter, wire,
                 direct, peer>>

\* ------------------------------------------------------------ specification

\* the inputs of the specification of all four tasks together: a
\* registration and one that overwrites it; a query and a response
SomeRegCalls ==
  { <<ID_SVC1, ST_HTTP, 8080, None, HOST1>>,
    <<ID_SVC1, ST_PRN, 9090, Some(60), HOST2>> }

SomeDatagrams ==
  { Packet(0, <<Question(QN_HTTP, 12, 1)>>, <<>>),
    Packet(33792, <<>>, <<RecA(N_HOST2, 120, <<10, 0, 0, 9>>)>>) }

SomeSources == { V4(<<10, 0, 0, 5>>, 5353) }

\* the query_interval arguments of run: 5 seconds, and none at all
QueryIntervals == {5, 0}

\* run called with a service_type of types and a query_interval of intervals
RunSteps(types, intervals) ==
  \/ \E t \in types, i \in intervals : run_spawn_advertiser(t, i)
  \/ run_spawn_querier
  \/ run_spawn_listener
  \/ run_spawn_reporter
  \/ run_return

ListenerSteps ==
  \/ listen_recv_error
  \/ process_response_add
  \/ process_query_question
  \/ \E ok \in BOOLEAN : process_query_send(ok)

AdvertiserSteps ==
  \/ advertise_sleep
  \/ advertise_services_build
  \/ \E ok \in BOOLEAN : advertise_services_send(ok)

QuerierSteps ==
  \/ periodic_query_tick
  \/ \E ok \in BOOLEAN : periodic_query_send(ok)

\* the four tasks, the registrations and the environment together
Next ==
  \/ \E c \in SomeRegCalls : register_local_service(c)
  \/ RunSteps({ST_HTTP}, {5})
  \/ \E d \in SomeDatagrams, src \in SomeSources : listen_recv(d, src)
  \/ ListenerSteps
  \/ AdvertiserSteps
  \/ QuerierSteps
  \/ print_node_registry
  \/ net_change

Spec == Init /\ [][Next]_vars

\* the listener, with registrations going on and the reporter reading the
\* nodes, over all datagrams
NextListen ==
  \/ \E c \in RegCalls : register_local_service(c)
  \/ RunSteps({ST_HTTP}, {5})
  \/ \E d \in Datagrams, src \in RecvSources : listen_recv(d, src)
  \/ ListenerSteps
  \/ print_node_registry

SpecListen == Init /\ [][NextListen]_vars

\* the querier, for a service_type DnsName::new accepts and one it rejects
NextQuery ==
  \/ \E c \in SomeRegCalls : register_local_service(c)
  \/ RunSteps(RunTypes, QueryIntervals)
  \/ QuerierSteps

SpecQuery == Init /\ [][NextQuery]_vars

\* the advertiser, with registrations going on and the local address changing
NextAdvertise ==
  \/ \E c \in RegCalls : register_local_service(c)
  \/ RunSteps({ST_HTTP}, {5})
  \/ AdvertiserSteps
  \/ net_change

SpecAdvertise == Init /\ [][NextAdvertise]_vars

\* the runtime runs a task that is ready: the advertiser's sleep ends and its
\* send_to call comes back
AdvertiserFairness ==
  /\ WF_vars(advertise_sleep)
  /\ WF_vars(advertise_services_build)
  /\ WF_vars(\E ok \in BOOLEAN : advertise_services_send(ok))

SpecAdvertiseFair == Init /\ [][NextAdvertise]_vars /\ AdvertiserFairness

\* a query with two PTR/IN questions, for "h.lo" and for "p.lo"
TwoQuestions ==
  Packet(256, <<Question(QN_HTTP, 12, 1), Question(QN_PRN, 12, 1)>>, <<>>)

\* the listener's query path and the advertiser, with registrations going on
NextSnapshot ==
  \/ \E c \in SomeRegCalls : register_local_service(c)
  \/ RunSteps({ST_HTTP}, {5})
  \/ \E src \in SomeSources : listen_recv(TwoQuestions, src)
  \/ listen_recv_error
  \/ process_query_question
  \/ \E ok \in BOOLEAN : process_query_send(ok)
  \/ AdvertiserSteps
  \/ net_change

SpecSnapshot == Init /\ [][NextSnapshot]_vars

\* process_query called by a caller of the public API, with registrations
NextDirect ==
  \/ \E c \in RegCalls : register_local_service(c)
  \/ \E d \in QueryPackets, src \in CallSources : process_query_call(d, src)
  \/ process_query_call_question
  \/ \E ok \in BOOLEAN : process_query_call_send(ok)

SpecDirect == Init /\ [][NextDirect]_vars

\* the query the periodic_query of the second engine sends for "h.lo"
PeerQuery ==
  Packet(FLAGS_QUERY,
         <<Question(DnsName_new(ST_HTTP).labels, QTYPE_PTR, QCLASS_IN)>>, <<>>)

\* two services of type "h.lo" on one host, one with a ttl and one without
PeerRegCalls ==
  { <<ID_SVC1, ST_HTTP, 8080, None, HOST1>>,
    <<ID_SVC2, ST_HTTP, 8081, Some(60), HOST1>> }

\* two engines: this one registers services, answers the peer's query and
\* advertises, its advertisements reaching the segment; the peer ingests what
\* this one sends; run is followed up to the spawn of this engine's listener
NextPeers ==
  \/ \E c \in PeerRegCalls : register_local_service(c)
  \/ run_spawn_advertiser(ST_HTTP, 5)
  \/ run_spawn_querier
  \/ run_spawn_listener
  \/ \E src \in SomeSources : listen_recv(PeerQuery, src)
  \/ process_query_question
  \/ \E ok \in BOOLEAN : process_query_send(ok)
  \/ advertise_sleep
  \/ advertise_services_build
  \/ advertise_services_send(TRUE)
  \/ net_change
  \/ peer_recv
  \/ peer_process_response_add

SpecPeers == Init /\ [][NextPeers]_vars

\* ------------------------------------------------------------------- claims

\* the message the listener handled last, once it is a decoded query
HandlingQuery ==
  /\ listener.n >= 1
  /\ listener.pkt.ok
  /\ listener.pkt.flags < 32768

\* the listener's last send belongs to the message it is handling
ListenerSent == wire.by = "listener" /\ listener.sentFor # <<>>

\* the question, and the list_services snapshot, of the listener's last send
SentIndex == listener.sentFor[Len(listener.sentFor)]
SentQuestion == listener.pkt.questions[SentIndex]
SentSnapshot == listener.snaps[SentIndex]

TtlOf(s) == IF s.ttl = <<>> THEN 120 ELSE s.ttl[1]

IsPTR(r, s) ==
  /\ r.type = "PTR"
  /\ DnsName_to_string(r.name) = Chars(s.service_type)
  /\ DnsName_to_string(r.ptr_name) = Chars(s.id)
  /\ r.ttl = TtlOf(s)

IsSRV(r, s) ==
  /\ r.type = "SRV"
  /\ DnsName_to_string(r.name) = Chars(s.id)
  /\ r.priority = 0
  /\ r.weight = 0
  /\ r.port = s.port
  /\ DnsName_to_string(r.target) = Chars(s.origin)
  /\ r.ttl = TtlOf(s)

IsA(r, s, ip) ==
  /\ r.type = "A"
  /\ DnsName_to_string(r.name) = Chars(s.origin)
  /\ r.ip = ip
  /\ r.ttl = TtlOf(s)

\* C1: the packet process_query sends for a PTR/IN question from an IPv4
\* source has flags 0x8400, no questions, and for each service of the
\* snapshot whose service_type equals the question name, in snapshot order,
\* the records PTR, SRV, A with the service's ttl (120 when absent) and the
\* source's octets in the A record.
C1_QueryResponseContent ==
  (ListenerSent /\ listener.src.fam = "V4") =>
    LET name == DnsName_to_string(SentQuestion.qname)
        m == SelectSeq(SentSnapshot, LAMBDA s : Chars(s.service_type) = name)
        p == wire.pkt
    IN  /\ SentQuestion.qtype = 12 /\ SentQuestion.qclass = 1
        /\ Len(m) >= 1
        /\ p.flags = 33792
        /\ p.questions = <<>>
        /\ Len(p.answers) = 3 * Len(m)
        /\ \A k \in 1..Len(m) :
             /\ IsPTR(p.answers[3 * k - 2], m[k])
             /\ IsSRV(p.answers[3 * k - 1], m[k])
             /\ IsA(p.answers[3 * k], m[k], listener.src.ip)

\* a response for two matching services, one with a ttl and one without
C1_Witness ==
  /\ ListenerSent
  /\ listener.src.ip = <<10, 0, 0, 5>>
  /\ Len(wire.pkt.answers) = 6
  /\ wire.pkt.answers[1].ttl # wire.pkt.answers[4].ttl
  /\ wire.pkt.answers[3].ip = <<10, 0, 0, 5>>

\* C2: a service is in the response to a PTR/IN question exactly when its
\* service_type equals the question name; no response is produced for a
\* question whose name equals no service_type of the snapshot (another letter
\* case, a proper prefix).
C2_ExactMatch ==
  /\ ListenerSent =>
       LET name == DnsName_to_string(SentQuestion.qname)
           p == wire.pkt
       IN  \A k \in 1..Len(SentSnapshot) :
             (\E a \in 1..Len(p.answers) :
                 /\ p.answers[a].type = "PTR"
                 /\ DnsName_to_string(p.answers[a].ptr_name) =
                      Chars(SentSnapshot[k].id))
             <=> Chars(SentSnapshot[k].service_type) = name
  /\ HandlingQuery =>
       \A i \in 1..Len(listener.snaps) :
         (\/ \E j \in 1..Len(listener.sentFor) : listener.sentFor[j] = i
          \/ listener.pc = "send" /\ listener.qi = i)
         => \E k \in 1..Len(listener.snaps[i]) :
               Chars(listener.snaps[i][k].service_type) =
                 DnsName_to_string(listener.pkt.questions[i].qname)

\* a question H.lo or h.l handled with a service of type h.lo registered:
\* no response
C2_Witness ==
  /\ HandlingQuery
  /\ listener.pc = "recv"
  /\ listener.pkt.questions[1].qname \in {QN_UPPER, QN_PREFIX}
  /\ listener.pkt.questions[1].qtype = 12
  /\ Len(listener.snaps) = 1
  /\ \E k \in 1..Len(listener.snaps[1]) :
       listener.snaps[1][k].service_type = ST_HTTP
  /\ listener.sentFor = <<>>
  /\ wire.by = "none"

\* the dotted-decimal forms of the addresses the inbound A records carry
Dotted(ip) ==
  CASE ip = <<10, 0, 0, 9>> -> <<"1", "0", ".", "0", ".", "0", ".", "9">>
    [] ip = <<10, 0, 0, 3>> -> <<"1", "0", ".", "0", ".", "0", ".", "3">>
    [] ip = <<192, 168, 1, 255>> ->
         <<"1", "9", "2", ".", "1", "6", "8", ".", "1", ".", "2", "5", "5">>
    [] ip = <<10, 0, 0, 5>> -> <<"1", "0", ".", "0", ".", "0", ".", "5">>
    [] ip = <<192, 168, 1, 20>> ->
         <<"1", "9", "2", ".", "1", "6", "8", ".", "1", ".", "2", "0">>
    [] ip = <<192, 168, 1, 10>> ->
         <<"1", "9", "2", ".", "1", "6", "8", ".", "1", ".", "1", "0">>

\* C3: after the listener has processed a response-flagged message,
\* list_nodes holds, for every A record of it, the NodeRecord
\* {id = name, ip_address = dotted form of the octets, ttl = Some(ttl)} of
\* the last A record of the message with that name.
C3_ResponseIngestion ==
  (/\ listener.n >= 1
   /\ listener.pc = "recv"
   /\ listener.pkt.ok
   /\ listener.pkt.flags >= 32768) =>
    LET as == listener.pkt.answers
        AIdx == { i \in 1..Len(as) : as[i].type = "A" }
    IN  \A i \in AIdx :
          LET same == { k \in AIdx : as[k].name = as[i].name }
              j == CHOOSE k \in same : \A k2 \in same : k2 <= k
          IN  \A snap \in list_nodes(nodes) :
                \E k \in 1..Len(snap) :
                  snap[k] = [id |-> DnsName_to_string(as[i].name),
                             ip_address |-> Dotted(as[j].ip),
                             ttl |-> <<as[j].ttl>>]

\* the message with two A records of n2.lo has been processed: the node is
\* the one of the second record
C3_Witness ==
  /\ listener.pc = "recv"
  /\ listener.pkt.flags = 32768
  /\ Len(listener.pkt.answers) = 2
  /\ nodes[<<"n", "2", ".", "l", "o">>] =
       [id |-> <<"n", "2", ".", "l", "o">>,
        ip_address |->
          <<"1", "9", "2", ".", "1", "6", "8", ".", "1", ".", "2", "5", "5">>,
        ttl |-> <<60>>]

\* the most recent call of the log for the id
LastCall(id) ==
  LET idx == { i \in 1..Len(regLog) : regLog[i][1] = id }
  IN  regLog[CHOOSE i \in idx : \A i2 \in idx : i2 <= i]

\* C8: after any sequence of register_local_service calls list_services
\* holds exactly one ServiceRecord per distinct id, built from the most
\* recent call with that id, with priority Some(0) and weight Some(0).
C8_LastWriteWins ==
  LET ids == { regLog[i][1] : i \in 1..Len(regLog) }
  IN  \A snap \in list_services(services) :
        /\ Len(snap) = Cardinality(ids)
        /\ \A id \in ids :
             \E k \in 1..Len(snap) :
               /\ snap[k].id = id
               /\ snap[k].service_type = LastCall(id)[2]
               /\ snap[k].port = LastCall(id)[3]
               /\ snap[k].ttl = LastCall(id)[4]
               /\ snap[k].origin = LastCall(id)[5]
               /\ snap[k].priority = <<0>>
               /\ snap[k].weight = <<0>>

\* the same id registered twice with different arguments
C8_Witness ==
  /\ Len(regLog) = 2
  /\ regLog[1][1] = regLog[2][1]
  /\ regLog[1] # regLog[2]
  /\ Cardinality(DOMAIN services) = 1

\* C4: no datagram and no registry content ends the listener: it ends only
\* when recv_from returns an error; otherwise, after handling a datagram, it
\* is waiting on recv_from again.
C4_ListenerSurvivesEveryPacket ==
  listener.status \in {"unspawned", "running", "recv_failed"}

\* C4, the part on undecodable datagrams: receiving one changes no registry
\* entry and causes no send, and the listener waits on recv_from again.
C4_UndecodableDiscarded ==
  [][(listener'.n = listener.n + 1 /\ ~listener'.pkt.ok) =>
       /\ nodes' = nodes
       /\ services' = services
       /\ wire' = wire
       /\ listener'.status = "running"
       /\ listener'.pc = "recv"]_vars

\* C5: a packet create_advertise_packet returns for a snapshot of n >= 1
\* services has flags 0x8400, no questions and 3n answers: per service, in
\* snapshot order, PTR, SRV, A with the service's ttl (120 when absent), and
\* every A record carries the one local address resolved for the call.
C5_AdvertiseContent ==
  (advertiser.res = "ok" /\ advertiser.snap # <<>>) =>
    LET p == advertiser.pkt
        snap == advertiser.snap
    IN  /\ advertiser.env_ip # <<>>
        /\ p.flags = 33792
        /\ p.questions = <<>>
        /\ Len(p.answers) = 3 * Len(snap)
        /\ \A k \in 1..Len(snap) :
             /\ IsPTR(p.answers[3 * k - 2], snap[k])
             /\ IsSRV(p.answers[3 * k - 1], snap[k])
             /\ IsA(p.answers[3 * k], snap[k], advertiser.env_ip[1])

\* an advertisement of two services, one with a ttl and one without, sent
C5_Witness ==
  /\ advertiser.res = "ok"
  /\ Len(advertiser.snap) = 2
  /\ wire.by = "advertiser"
  /\ wire.pkt = advertiser.pkt
  /\ Len(wire.pkt.answers) = 6
  /\ wire.pkt.answers[1].ttl # wire.pkt.answers[4].ttl
  /\ wire.pkt.answers[3].ip = <<192, 168, 1, 10>>
  /\ wire.pkt.answers[6].ip = <<192, 168, 1, 10>>

\* C6: on an empty registry create_advertise_packet returns Ok with flags
\* 0x8400, no answers and no questions, and does not call get_local_ipv4,
\* whether or not the local address can be determined.
C6_AdvertiseEmpty ==
  (advertiser.res # "none" /\ advertiser.snap = <<>>) =>
    /\ advertiser.res = "ok"
    /\ advertiser.pkt.ok
    /\ advertiser.pkt.flags = 33792
    /\ advertiser.pkt.answers = <<>>
    /\ advertiser.pkt.questions = <<>>
    /\ ~advertiser.lookup

\* the packet was built on an empty registry while no local address could be
\* determined
C6_Witness ==
  /\ advertiser.res = "ok"
  /\ advertiser.snap = <<>>
  /\ advertiser.env_ip = <<>>
  /\ advertiser.pc = "send"
  /\ advertiser.pkt.answers = <<>>

\* C7 as stated: run does not return while the process is running.
C7_RunNeverReturns == run_pc # "returned"

\* C7 as amended: run returns once it has spawned the four tasks; when it has
\* returned, all four have been started.
C7_RunReturnsAfterSpawning ==
  run_pc = "returned" =>
    /\ listener.status # "unspawned"
    /\ advertiser.status # "unspawned"
    /\ querier.status # "unspawned"
    /\ reporter.status # "unspawned"

\* run has returned and the four tasks are running and have acted
C7_Witness ==
  /\ run_pc = "returned"
  /\ listener.status = "running" /\ listener.n = 1
  /\ advertiser.status = "running" /\ wire.by = "advertiser"
  /\ querier.status = "running" /\ querier.pc = "send"
  /\ reporter.status = "running" /\ reporter.seen # <<>>

\* a step in which a task's send_packet call comes back
SendReturns ==
  \/ advertiser.pc = "send" /\ advertiser'.pc # "send"
  \/ querier.pc = "send" /\ querier'.pc # "send"
  \/ listener.pc = "send" /\ listener' # listener

StatusUnchanged ==
  /\ listener'.status = listener.status
  /\ advertiser'.status = advertiser.status
  /\ querier'.status = querier.status
  /\ reporter'.status = reporter.status

\* C9: a socket error ends no other task. The step in which recv_from fails
\* ends the listener and leaves the advertiser, the querier and the reporter
\* as they are; a step in which a send fails (advertiser, querier or query
\* response) changes no task's status.
C9_FailureIsolation ==
  /\ [][(listener'.status = "recv_failed" /\ listener.status # "recv_failed") =>
          /\ listener.status = "running"
          /\ advertiser' = advertiser
          /\ querier' = querier
          /\ reporter' = reporter]_vars
  /\ [][(SendReturns /\ ~wire'.ok) => StatusUnchanged]_vars

\* the listener has ended on a receive error, the other three tasks are
\* running and have acted, and the last send, the advertiser's, failed
C9_Witness ==
  /\ listener.status = "recv_failed"
  /\ wire.by = "advertiser" /\ ~wire.ok
  /\ advertiser.status = "running"
  /\ querier.status = "running" /\ querier.pc = "send"
  /\ reporter.status = "running" /\ reporter.seen # <<>>

\* the questions of the message in hand that process_query is through with
QuestionsDone ==
  IF listener.pc = "recv"
  THEN 1..Len(listener.pkt.questions)
  ELSE 1..(listener.qi - 1)

\* C10: process_query attempts one send for a question exactly when it is a
\* PTR/IN question whose name is the service_type of a service of the
\* snapshot taken for it, in question order, one packet per such question.
C10_OneSendPerMatchingQuestion ==
  HandlingQuery =>
    /\ \A i \in QuestionsDone :
         LET q == listener.pkt.questions[i]
         IN  /\ i <= Len(listener.snaps)
             /\ Cardinality({ j \in 1..Len(listener.sentFor) :
                                listener.sentFor[j] = i }) =
                  IF /\ q.qtype = 12
                     /\ q.qclass = 1
                     /\ \E k \in 1..Len(listener.snaps[i]) :
                          Chars(listener.snaps[i][k].service_type) =
                            DnsName_to_string(q.qname)
                  THEN 1 ELSE 0
    /\ \A j \in 1..Len(listener.sentFor) :
         /\ listener.sentFor[j] \in QuestionsDone
         /\ j > 1 => listener.sentFor[j - 1] < listener.sentFor[j]

\* a message with two PTR/IN questions, both matching, answered by two sends
C10_Witness ==
  /\ HandlingQuery
  /\ listener.pc = "recv"
  /\ Len(listener.pkt.questions) = 2
  /\ listener.sentFor = <<1, 2>>
  /\ Len(wire.pkt.answers) = 3

\* a step of the listener on a decoded response-flagged message: its receipt
\* or the add_node of one of its A records
ResponseStep ==
  /\ listener' # listener
  /\ listener'.n >= 1
  /\ listener'.pkt.ok
  /\ listener'.pkt.flags >= 32768

\* the listener has processed a decoded response-flagged message to its end
ResponseProcessed ==
  /\ listener.n >= 1
  /\ listener.pkt.ok
  /\ listener.pkt.flags >= 32768
  /\ listener.pc = "recv"

\* the names of the A records of a message
ANames(packet) ==
  { DnsName_to_string(packet.answers[i].name) :
      i \in { k \in 1..Len(packet.answers) : packet.answers[k].type = "A" } }

\* C11: every step of processing a response-flagged message leaves the
\* service entries unchanged and adds or overwrites node entries for the
\* names of its A records only, each entry added or changed being the record
\* of one of them; a response without A records (PTR and SRV only) leaves
\* nodes and services unchanged; once the message is processed the node ids
\* are those there were and the names of its A records.
C11_NonAIgnored ==
  /\ [][ResponseStep =>
          /\ services' = services
          /\ DOMAIN nodes' \subseteq DOMAIN nodes \cup ANames(listener'.pkt)
          /\ \A id \in DOMAIN nodes \ ANames(listener'.pkt) :
               nodes'[id] = nodes[id]
          /\ \A id \in DOMAIN nodes' :
               (id \notin DOMAIN nodes \/ nodes'[id] # nodes[id]) =>
                 \E i \in 1..Len(listener'.pkt.answers) :
                   LET a == listener'.pkt.answers[i]
                   IN  /\ a.type = "A"
                       /\ nodes'[id] = [id |-> DnsName_to_string(a.name),
                                        ip_address |-> Dotted(a.ip),
                                        ttl |-> <<a.ttl>>]
          /\ ANames(listener'.pkt) = {} => nodes' = nodes]_vars
  /\ [](ResponseProcessed => ANames(listener.pkt) \subseteq DOMAIN nodes)
  /\ []((ResponseProcessed /\ listener.n = 1) =>
          DOMAIN nodes = ANames(listener.pkt))

\* a response with a PTR, an A and an SRV record was processed with a service
\* registered: the one node is that of the A record
C11_Witness ==
  /\ listener.n = 1
  /\ listener.pc = "recv"
  /\ listener.pkt.flags = 33792
  /\ Len(listener.pkt.answers) = 3
  /\ listener.pkt.answers[1].type = "PTR"
  /\ listener.pkt.answers[3].type = "SRV"
  /\ DOMAIN nodes = { <<"n", "3", ".", "l", "o">> }
  /\ services # <<>>

\* C12: every packet the querier sends has flags 0x0000, no answers and one
\* question {name = run's service_type, qtype 12, qclass 1}; after a send,
\* failed or not, the querier is running and waits for the next tick.
C12_PeriodicQuery ==
  /\ [](wire.by = "querier" =>
          /\ wire.pkt.flags = 0
          /\ wire.pkt.answers = <<>>
          /\ Len(wire.pkt.questions) = 1
          /\ DnsName_to_string(wire.pkt.questions[1].qname) = Chars(run_type)
          /\ wire.pkt.questions[1].qtype = 12
          /\ wire.pkt.questions[1].qclass = 1)
  /\ [][(querier.pc = "send" /\ querier'.pc # "send") =>
          /\ wire'.by = "querier"
          /\ wire'.pkt = querier.pkt
          /\ querier'.status = "running"
          /\ querier'.pc = "tick"]_vars

\* a query was sent, the send failed, and the querier has built the next one
C12_Witness ==
  /\ wire.by = "querier"
  /\ ~wire.ok
  /\ wire.pkt.questions = <<Question(QN_HTTP, 12, 1)>>
  /\ querier.status = "running"
  /\ querier.pc = "send"
  /\ querier.tick = "later"

\* C13: every packet handed to the socket, by the advertiser, the querier or
\* the query path of the listener, is addressed to 224.0.0.251 port 5353; a
\* response to a query does not go to the source address of the query.
C13_MulticastOnly ==
  wire.by # "none" =>
    /\ wire.dst.fam = "V4"
    /\ wire.dst.ip = <<224, 0, 0, 251>>
    /\ wire.dst.port = 5353
    /\ wire.by = "listener" => wire.dst # listener.src

\* the response to a query from 10.0.0.5 port 5353 went to the group
C13_Witness ==
  /\ wire.by = "listener"
  /\ wire.ok
  /\ listener.sentFor = <<1>>
  /\ listener.src = V4(<<10, 0, 0, 5>>, 5353)
  /\ wire.dst = V4(<<224, 0, 0, 251>>, 5353)

Registered(c) ==
  [id |-> c[1], service_type |-> c[2], port |-> c[3], ttl |-> c[4],
   origin |-> c[5], priority |-> <<0>>, weight |-> <<0>>]

\* the service entries of the registry right after the k-th logged call
VersionsAt(k) ==
  { Registered(regLog[i]) :
      i \in { i \in 1..k : \A j \in (i + 1)..k : regLog[j][1] # regLog[i][1] } }

\* snap lists the registry as it was at one instant
IsSnapshot(snap) ==
  \E k \in 0..Len(regLog) :
    /\ Len(snap) = Cardinality(VersionsAt(k))
    /\ { snap[i] : i \in 1..Len(snap) } = VersionsAt(k)

\* the answers are the PTR, SRV, A triples of the services of m, in order
TriplesOf(answers, m, ip) ==
  /\ Len(answers) = 3 * Len(m)
  /\ \A k \in 1..Len(m) :
       /\ IsPTR(answers[3 * k - 2], m[k])
       /\ IsSRV(answers[3 * k - 1], m[k])
       /\ IsA(answers[3 * k], m[k], ip)

\* C15: with register_local_service running concurrently, every packet the
\* query path or the advertiser sends is built from one list_services
\* snapshot that existed at one instant: the three records of a service carry
\* the fields of one registered version, and the services of the packet are
\* the (matching) services of that snapshot.
C15_SnapshotConsistency ==
  /\ ListenerSent =>
       /\ IsSnapshot(SentSnapshot)
       /\ TriplesOf(wire.pkt.answers,
                    SelectSeq(SentSnapshot,
                              LAMBDA s : Chars(s.service_type) =
                                           DnsName_to_string(SentQuestion.qname)),
                    listener.src.ip)
  /\ (advertiser.res = "ok" /\ advertiser.pc = "send") =>
       /\ IsSnapshot(advertiser.snap)
       /\ advertiser.snap # <<>> =>
            TriplesOf(advertiser.pkt.answers, advertiser.snap, advertiser.env_ip[1])
  /\ (wire.by = "advertiser" /\ advertiser.res = "ok" /\ advertiser.pc # "send") =>
       /\ wire.pkt = advertiser.pkt
       /\ IsSnapshot(advertiser.snap)
       /\ advertiser.snap # <<>> =>
            TriplesOf(wire.pkt.answers, advertiser.snap, advertiser.env_ip[1])

\* the two questions of one message were answered from different snapshots:
\* the first from the registry before the service was registered again, the
\* second from the registry after
C15_Witness ==
  /\ listener.sentFor = <<1, 2>>
  /\ wire.by = "listener"
  /\ Len(listener.snaps[1]) = 1
  /\ Len(listener.snaps[2]) = 1
  /\ listener.snaps[1][1].id = listener.snaps[2][1].id
  /\ listener.snaps[1][1].port = 8080
  /\ listener.snaps[2][1].port = 9090
  /\ wire.pkt.answers[2].port = 9090
  /\ advertiser.res = "ok" /\ advertiser.snap # <<>>

\* C16: the querier waits for the query interval before every query, the
\* first one included: no query packet is built or sent on a tick that
\* completed without a period of the interval having elapsed.
C16_QueryOnlyAfterInterval ==
  (querier.pc = "send" \/ wire.by = "querier") => querier.tick = "later"

\* the services of the snapshot the call took for question i whose
\* service_type is the name of the question, when that is a PTR/IN question;
\* none otherwise
DirectMatches(i) ==
  LET q == direct.pkt.questions[i]
  IN  IF q.qtype = 12 /\ q.qclass = 1
      THEN SelectSeq(direct.snaps[i],
                     LAMBDA s : Chars(s.service_type) = DnsName_to_string(q.qname))
      ELSE <<>>

\* C17: process_query called with a source that is not IPv4 still sends one
\* response per matching PTR/IN question, with flags 0x8400 and, per matching
\* service in snapshot order, the PTR record and the SRV record and no A
\* record.
C17_NonIpv4Source ==
  (direct.status = "returned" /\ direct.src.fam # "V4") =>
    LET answered == { i \in 1..Len(direct.pkt.questions) : DirectMatches(i) # <<>> }
    IN  /\ Len(direct.sent) = Cardinality(answered)
        /\ \A j \in 1..Len(direct.sent) :
             LET i == direct.sent[j].qi
                 p == direct.sent[j].pkt
                 m == DirectMatches(i)
             IN  /\ i \in answered
                 /\ j > 1 => direct.sent[j - 1].qi < i
                 /\ p.flags = 33792
                 /\ p.questions = <<>>
                 /\ Len(p.answers) = 2 * Len(m)
                 /\ \A k \in 1..Len(m) :
                      /\ IsPTR(p.answers[2 * k - 1], m[k])
                      /\ IsSRV(p.answers[2 * k], m[k])
        /\ direct.sent # <<>> =>
             /\ wire.by = "caller"
             /\ wire.pkt = direct.sent[Len(direct.sent)].pkt

\* a query for "h.lo" from fe80::1 with two services of that type registered:
\* one response of four answers, PTR, SRV, PTR, SRV
C17_Witness ==
  /\ direct.status = "returned"
  /\ direct.src.fam = "V6"
  /\ Len(direct.sent) = 1
  /\ wire.by = "caller"
  /\ Len(wire.pkt.answers) = 4
  /\ wire.pkt.answers[1].type = "PTR"
  /\ wire.pkt.answers[2].type = "SRV"
  /\ wire.pkt.answers[3].type = "PTR"
  /\ wire.pkt.answers[4].type = "SRV"

\* the service of call c is in the registry as c registered it
InRegistry(c) ==
  /\ c[1] \in DOMAIN services
  /\ services[c[1]] = Registered(c)

\* the last packet handed to the socket is an advertisement that was sent and
\* holds the PTR, SRV, A triple of the service of call c
AdvertisedOk(c) ==
  /\ wire.by = "advertiser"
  /\ wire.ok
  /\ \E k \in 1..(Len(wire.pkt.answers) \div 3) :
       /\ IsPTR(wire.pkt.answers[3 * k - 2], Registered(c))
       /\ IsSRV(wire.pkt.answers[3 * k - 1], Registered(c))
       /\ wire.pkt.answers[3 * k].type = "A"
       /\ DnsName_to_string(wire.pkt.answers[3 * k].name) = Chars(c[5])

\* an iteration of the advertiser whose local-IP lookup and send succeed
OkIteration ==
  /\ advertise_services_send(TRUE)
  /\ advertiser.lookup

\* C18: once spawned the advertiser repeats forever, and, when iterations
\* whose lookup and send succeed keep occurring, every service that is in the
\* registry is eventually in an advertisement that was sent (or is
\* registered anew before that).
C18_AdvertiserLiveness ==
  /\ (<>(advertiser.status = "running")) => []<><<advertise_services_build>>_vars
  /\ \A c \in RegCalls :
       ([]<><<OkIteration>>_vars) =>
         [](InRegistry(c) => <>(AdvertisedOk(c) \/ ~InRegistry(c)))

\* a step of the listener on a decoded message with QR clear: its receipt or
\* a step of process_query
QueryStep ==
  /\ listener' # listener
  /\ listener'.n >= 1
  /\ listener'.pkt.ok
  /\ listener'.pkt.flags < 32768

\* C19: a decoded message takes the response path when bit 15 of its flags
\* is set and the query path otherwise. Handling one with QR set sends
\* nothing and changes no service entry; handling one with QR clear changes
\* neither nodes nor services; the services change only in
\* register_local_service.
C19_PathSeparation ==
  /\ [][ResponseStep =>
          /\ wire' = wire
          /\ services' = services
          /\ listener'.pc \in {"recv", "response"}
          /\ listener'.snaps = <<>>
          /\ listener'.sentFor = <<>>]_vars
  /\ [](ResponseProcessed => ANames(listener.pkt) \subseteq DOMAIN nodes)
  /\ [][QueryStep =>
          /\ nodes' = nodes
          /\ services' = services
          /\ listener'.pc # "response"]_vars
  /\ []((listener.n >= 1 /\ listener.pkt.ok /\ listener.pkt.flags < 32768
           /\ listener.pc = "recv") =>
          Len(listener.snaps) = Len(listener.pkt.questions))
  /\ [][services' # services => Len(regLog') = Len(regLog) + 1]_vars

\* a query that carries an A record in its answer section was answered and
\* no node was added
C19_Witness ==
  /\ listener.n = 1
  /\ listener.pkt.flags = 0
  /\ listener.pkt.answers # <<>>
  /\ listener.pkt.answers[1].type = "A"
  /\ listener.pc = "recv"
  /\ listener.sentFor = <<1>>
  /\ wire.by = "listener"
  /\ nodes = <<>>

\* the peer has ingested, to its end, the response this engine sent last for
\* the peer's query
PeerIngestedResponse ==
  /\ peer.pc = "recv"
  /\ peer.from = "listener"
  /\ ListenerSent
  /\ peer.pkt = wire.pkt

\* the peer has ingested, to its end, the advertisement this engine sent last
PeerIngestedAdvertisement ==
  /\ peer.pc = "recv"
  /\ peer.from = "advertiser"
  /\ wire.by = "advertiser"
  /\ peer.pkt = wire.pkt
  /\ advertiser.pc # "send"
  /\ advertiser.res = "ok"

\* the last service of m with the origin of m[k]
LastOfOrigin(m, k) ==
  m[CHOOSE j \in 1..Len(m) :
      /\ m[j].origin = m[k].origin
      /\ \A j2 \in 1..Len(m) : m[j2].origin = m[k].origin => j2 <= j]

\* C20: when the peer has ingested the response this engine produced for
\* the peer's PTR query, the peer's node of each matching service's origin is
\* {id = origin, ip_address = the address the query came from, ttl =
\* Some(service ttl or 120)}, whatever this engine's local address is; when it
\* has ingested an advertisement, the node has this engine's local address;
\* and a node of the peer has this engine's local address only if the peer
\* has ingested an advertisement.
C20_TwoEngineDiscovery ==
  /\ PeerIngestedResponse =>
       LET m == SelectSeq(SentSnapshot,
                          LAMBDA s : Chars(s.service_type) =
                                       DnsName_to_string(SentQuestion.qname))
       IN  \A k \in 1..Len(m) :
             /\ Chars(m[k].origin) \in DOMAIN peer.nodes
             /\ peer.nodes[Chars(m[k].origin)] =
                  [id |-> Chars(m[k].origin),
                   ip_address |-> Dotted(listener.src.ip),
                   ttl |-> <<TtlOf(LastOfOrigin(m, k))>>]
  /\ PeerIngestedAdvertisement =>
       \A k \in 1..Len(advertiser.snap) :
         /\ Chars(advertiser.snap[k].origin) \in DOMAIN peer.nodes
         /\ peer.nodes[Chars(advertiser.snap[k].origin)] =
              [id |-> Chars(advertiser.snap[k].origin),
               ip_address |-> Dotted(advertiser.env_ip[1]),
               ttl |-> <<TtlOf(LastOfOrigin(advertiser.snap, k))>>]
  /\ \A id \in DOMAIN peer.nodes :
       peer.nodes[id].ip_address = Dotted(<<192, 168, 1, 10>>) => peer.adv

\* the peer asked from 10.0.0.5 and ingested the response, built while this
\* engine's local address was 192.168.1.10: its node of n1.lo has 10.0.0.5
C20_Witness ==
  /\ peer.n = 1
  /\ PeerIngestedResponse
  /\ local_ip = <<<<192, 168, 1, 10>>>>
  /\ listener.src.ip = <<10, 0, 0, 5>>
  /\ peer.nodes[<<"n", "1", ".", "l", "o">>] =
       [id |-> <<"n", "1", ".", "l", "o">>,
        ip_address |-> <<"1", "0", ".", "0", ".", "0", ".", "5">>,
        ttl |-> <<60>>]

====
